---- MODULE Spec2Model ----
(***************************************************************************)
(* Authenticated HTTP client of the changelog console (services/api.ts):   *)
(* the axios request interceptor that attaches the bearer credential, the  *)
(* response interceptor that refreshes the credential once and queues the  *)
(* requests that fail meanwhile, and the login screen that first stores    *)
(* the credential.                                                         *)
(*                                                                         *)
(* The event loop is single threaded: a handler runs without interruption  *)
(* from the arrival of a response up to its first await, and from the      *)
(* settlement of the awaited call up to its return.  Each such run is one  *)
(* action.  The request interceptors of the replays started by a handler   *)
(* run as microtasks of the same task, before any other response can be    *)
(* handled, so they belong to that handler's action.                       *)
(*                                                                         *)
(* The backend is external: the result of every network call is an input.  *)
(* Tokens returned by /auth/login and /auth/refresh are non-empty strings. *)
(* Assigning window.location.href starts a navigation; the model records   *)
(* the new location and lets the responses still under way be handled.     *)
(***************************************************************************)
EXTENDS Naturals, Integers, Sequences, FiniteSets, TLC

\* ---------------------------------------------------------------- bounds
NReq == 2           \* request descriptors a run may send
MaxTok == 2         \* distinct tokens the backend may return
MaxNow == 1         \* readings of Date.now() at login
MaxExp == 11        \* largest exp of a token payload

\* ------------------------------------------------------------- constants
\* 60 * 60 * 1000, the lifetime SignIn.handleSubmit adds to Date.now()
HourMs == 60 * 60 * 1000

Reqs == 1 .. NReq
Tokens == 1 .. MaxTok
Times == 0 .. MaxNow
NoToken == 0                      \* localStorage.getItem(...) === null
NoHeader == <<>>                  \* config without an Authorization header
Bearer(t) == <<"Bearer", t>>      \* `Bearer ${t}`

\* failures of a network call: HTTP 401, another HTTP status, no response
Errors == {"http401", "http500", "network"}

\* err.response?.status
ResponseStatus(e) ==
  CASE e = "http401" -> 401
    [] e = "http500" -> 500
    [] OTHER -> 0

Kinds == {"api", "login"}

\* what the caller of send holds: nothing yet, the response, or the failure of
\* one of the two calls made for it (its own request, or the refresh call)
Pending == [result |-> "pending", of |-> "-", error |-> "-"]
Fulfilled == [result |-> "ok", of |-> "request", error |-> "-"]
Rejected(call, e) == [result |-> "fail", of |-> call, error |-> e]

VARIABLES
  localStorage,   \* [token, authenticated, expires_at]
  refreshing,     \* let refreshing
  queue,          \* let queue: the suspended requests, in push order
  href,           \* window.location.href / router location
  pc,             \* where each request is
  kind,           \* what each request is: POST /auth/login or another call
  retry,          \* original._retry
  hdr,            \* cfg.headers.Authorization of the request's config
  outcome,        \* what the caller of send has received
  replayTok,      \* data.token of the refresh call that replayed the request
  nDispatch,      \* network dispatches of the request so far
  nRefresh,       \* refresh calls issued by the request's 401 handler
  nQueued,        \* times the request was pushed on the queue
  lastErr         \* err of the last failure the error handler got for it

vars == <<localStorage, refreshing, queue, href, pc, kind, retry, hdr,
          outcome, replayTok, nDispatch, nRefresh, nQueued, lastErr>>

\* no failure handled for the request yet
\* the call of parseJwtExpMs
VARIABLES
  jwtToken,       \* the argument
  jwtPc,          \* where the call is
  jwtValue,       \* the number returned
  jwtRaised       \* an error reached the caller

jwtVars == <<jwtToken, jwtPc, jwtValue, jwtRaised>>

\* the requests handed to the network by the last step, in call order;
\* followed only where the order is looked at
VARIABLE wire

\* what a gateway step leaves alone
aside == <<jwtVars, wire>>

NoErr == "-"

Range(s) == {s[i] : i \in 1 .. Len(s)}

EmptyStorage == [token |-> NoToken, authenticated |-> FALSE, expires_at |-> 0]

LoginStore_NoExpiry(token, now) ==
  [token |-> token, authenticated |-> TRUE, expires_at |-> now]

\* SignIn.handleSubmit, the three setItem calls
LoginStore(token, now) ==
  [token |-> token, authenticated |-> TRUE, expires_at |-> now + HourMs]

RefreshStore_Relogin(store, token) ==
  [store EXCEPT !.token = token, !.authenticated = TRUE]

RefreshStore_Skip(store, token) == store

\* localStorage.setItem("token", data.token)
RefreshStore(store, token) == [store EXCEPT !.token = token]

ClearStore_Keep(store) == store

\* localStorage.clear()
ClearStore(store) == EmptyStorage

StoredToken_IfAuthenticated(store) ==
  IF store.authenticated THEN store.token ELSE NoToken

\* localStorage.getItem("token")
StoredToken(store) == store.token

RequestInterceptor_KeepExisting(cfgHdr, t) ==
  IF t # NoToken /\ cfgHdr = NoHeader THEN Bearer(t) ELSE cfgHdr

\* api.interceptors.request.use: the header the dispatched config carries
RequestInterceptor(cfgHdr, t) == IF t # NoToken THEN Bearer(t) ELSE cfgHdr

ShouldRefresh_NoResponse(e, retried) ==
  ResponseStatus(e) \in {401, 0} /\ ~retried

ShouldRefresh_NoMarker(e, retried) == ResponseStatus(e) = 401

\* err.response?.status === 401 && !original._retry
ShouldRefresh(e, retried) == ResponseStatus(e) = 401 /\ ~retried

RefreshRejection_Own(e) == Rejected("request", "http401")

\* w.rej(e) and Promise.reject(e), e the failure of the refresh call
RefreshRejection(e) == Rejected("refresh", e)

\* the button of the login form is disabled while a login is under way
LoginBusy == \E r \in Reqs : kind[r] = "login" /\ pc[r] \notin {"idle", "done"}

InitGateway ==
  /\ \/ localStorage = EmptyStorage /\ href = "/"
     \/ \E t \in Tokens, now \in Times :
          localStorage = LoginStore(t, now) /\ href = "/dashboard"
  /\ refreshing = FALSE
  /\ queue = <<>>
  /\ pc = [r \in Reqs |-> "idle"]
  /\ kind = [r \in Reqs |-> "api"]
  /\ retry = [r \in Reqs |-> FALSE]
  /\ hdr = [r \in Reqs |-> NoHeader]
  /\ outcome = [r \in Reqs |-> Pending]
  /\ replayTok = [r \in Reqs |-> NoToken]
  /\ nDispatch = [r \in Reqs |-> 0]
  /\ nRefresh = [r \in Reqs |-> 0]
  /\ nQueued = [r \in Reqs |-> 0]
  /\ lastErr = [r \in Reqs |-> NoErr]

\* no call of parseJwtExpMs is under way
JwtRest ==
  /\ jwtToken = ""
  /\ jwtPc = "rest"
  /\ jwtValue = 0
  /\ jwtRaised = FALSE

Init == InitGateway /\ JwtRest /\ wire = <<>>

\* api(config): a caller sends a request with a new config.  The slot of a
\* request whose caller has its outcome is free for the next request.
Send(r, k) ==
  /\ pc[r] \in {"idle", "done"}
  /\ k = "login" => ~LoginBusy
  /\ pc' = [pc EXCEPT ![r] = "sent"]
  /\ kind' = [kind EXCEPT ![r] = k]
  /\ retry' = [retry EXCEPT ![r] = FALSE]
  /\ hdr' = [hdr EXCEPT
               ![r] = RequestInterceptor(NoHeader, StoredToken(localStorage))]
  /\ outcome' = [outcome EXCEPT ![r] = Pending]
  /\ nDispatch' = [nDispatch EXCEPT ![r] = 1]
  /\ nRefresh' = [nRefresh EXCEPT ![r] = 0]
  /\ nQueued' = [nQueued EXCEPT ![r] = 0]
  /\ lastErr' = [lastErr EXCEPT ![r] = NoErr]
  /\ UNCHANGED <<localStorage, refreshing, queue, href, replayTok>>

\* the promise of send settles with o: the config of r is dropped
Settle(r, o) ==
  /\ pc' = [pc EXCEPT ![r] = "done"]
  /\ outcome' = [outcome EXCEPT ![r] = o]
  /\ hdr' = [hdr EXCEPT ![r] = NoHeader]
  /\ kind' = [kind EXCEPT ![r] = "api"]
  /\ replayTok' = [replayTok EXCEPT ![r] = NoToken]

ResponseOk_ResetFlag(r) ==
  /\ pc[r] \in {"sent", "replay"}
  /\ kind[r] = "api"
  /\ Settle(r, Fulfilled)
  /\ refreshing' = FALSE
  /\ UNCHANGED <<localStorage, queue, href, retry, nDispatch, nRefresh,
                 nQueued, lastErr>>

\* (r) => r, for a request other than the login
ResponseOk(r) ==
  /\ pc[r] \in {"sent", "replay"}
  /\ kind[r] = "api"
  /\ Settle(r, Fulfilled)
  /\ UNCHANGED <<localStorage, refreshing, queue, href, retry, nDispatch,
                 nRefresh, nQueued, lastErr>>

\* (r) => r, then the continuation of SignIn.handleSubmit
LoginOk(r, token, now) ==
  /\ pc[r] \in {"sent", "replay"}
  /\ kind[r] = "login"
  /\ Settle(r, Fulfilled)
  /\ localStorage' = LoginStore(token, now)
  /\ href' = "/dashboard"
  /\ UNCHANGED <<refreshing, queue, retry, nDispatch, nRefresh, nQueued,
                 lastErr>>

Propagate_Logout(r, e) ==
  /\ Settle(r, Rejected("request", e))
  /\ localStorage' = IF ResponseStatus(e) = 401 THEN ClearStore(localStorage)
                                                ELSE localStorage
  /\ href' = IF ResponseStatus(e) = 401 THEN "/" ELSE href
  /\ UNCHANGED <<refreshing, queue, retry, nDispatch, nRefresh, nQueued>>

Propagate_Cascade(r, e) ==
  /\ LET failed == {r} \cup {w \in Reqs : pc[w] = "replay"}
     IN  /\ pc' = [w \in Reqs |-> IF w \in failed THEN "done" ELSE pc[w]]
         /\ outcome' = [w \in Reqs |->
                          IF w \in failed THEN Rejected("request", e)
                                          ELSE outcome[w]]
         /\ hdr' = [w \in Reqs |-> IF w \in failed THEN NoHeader ELSE hdr[w]]
         /\ kind' = [w \in Reqs |-> IF w \in failed THEN "api" ELSE kind[w]]
         /\ replayTok' = [w \in Reqs |->
                            IF w \in failed THEN NoToken ELSE replayTok[w]]
  /\ UNCHANGED <<localStorage, refreshing, queue, href, retry, nDispatch,
                 nRefresh, nQueued>>

\* the error handler, on a failure that does not enter the refresh protocol
Propagate(r, e) ==
  /\ Settle(r, Rejected("request", e))
  /\ UNCHANGED <<localStorage, refreshing, queue, href, retry, nDispatch,
                 nRefresh, nQueued>>

Enqueue_Reject(r) ==
  /\ retry' = [retry EXCEPT ![r] = TRUE]
  /\ Settle(r, Rejected("request", "http401"))
  /\ UNCHANGED <<localStorage, refreshing, queue, href, nDispatch, nRefresh,
                 nQueued>>

\* the error handler, a first 401 while a refresh is in flight
Enqueue(r) ==
  /\ retry' = [retry EXCEPT ![r] = TRUE]
  /\ queue' = Append(queue, r)
  /\ pc' = [pc EXCEPT ![r] = "queued"]
  /\ nQueued' = [nQueued EXCEPT ![r] = @ + 1]
  /\ UNCHANGED <<localStorage, refreshing, href, kind, hdr, outcome,
                 replayTok, nDispatch, nRefresh>>

StartRefresh_CompareToken(r) ==
  IF hdr[r] # RequestInterceptor(NoHeader, StoredToken(localStorage))
    THEN /\ retry' = [retry EXCEPT ![r] = TRUE]
         /\ pc' = [pc EXCEPT ![r] = "replay"]
         /\ hdr' = [hdr EXCEPT
                      ![r] = RequestInterceptor(NoHeader,
                                                StoredToken(localStorage))]
         /\ nDispatch' = [nDispatch EXCEPT ![r] = @ + 1]
         /\ UNCHANGED <<localStorage, refreshing, queue, href, kind, outcome,
                        replayTok, nRefresh, nQueued>>
    ELSE /\ retry' = [retry EXCEPT ![r] = TRUE]
         /\ refreshing' = TRUE
         /\ pc' = [pc EXCEPT ![r] = "awaitRefresh"]
         /\ nRefresh' = [nRefresh EXCEPT ![r] = @ + 1]
         /\ UNCHANGED <<localStorage, queue, href, kind, hdr, outcome,
                        replayTok, nDispatch, nQueued>>

StartRefresh_Unmarked(r) ==
  /\ refreshing' = TRUE
  /\ pc' = [pc EXCEPT ![r] = "awaitRefresh"]
  /\ nRefresh' = [nRefresh EXCEPT ![r] = @ + 1]
  /\ UNCHANGED <<localStorage, queue, href, kind, retry, hdr, outcome,
                 replayTok, nDispatch, nQueued>>

StartRefresh_DropToken(r) ==
  /\ retry' = [retry EXCEPT ![r] = TRUE]
  /\ refreshing' = TRUE
  /\ pc' = [pc EXCEPT ![r] = "awaitRefresh"]
  /\ nRefresh' = [nRefresh EXCEPT ![r] = @ + 1]
  /\ localStorage' = [localStorage EXCEPT !.token = NoToken]
  /\ UNCHANGED <<queue, href, kind, hdr, outcome, replayTok, nDispatch,
                 nQueued>>

StartRefresh_NoFlag(r) ==
  /\ retry' = [retry EXCEPT ![r] = TRUE]
  /\ pc' = [pc EXCEPT ![r] = "awaitRefresh"]
  /\ nRefresh' = [nRefresh EXCEPT ![r] = @ + 1]
  /\ UNCHANGED <<localStorage, refreshing, queue, href, kind, hdr, outcome,
                 replayTok, nDispatch, nQueued>>

\* the error handler, a first 401 while no refresh is in flight
StartRefresh(r) ==
  /\ retry' = [retry EXCEPT ![r] = TRUE]
  /\ refreshing' = TRUE
  /\ pc' = [pc EXCEPT ![r] = "awaitRefresh"]
  /\ nRefresh' = [nRefresh EXCEPT ![r] = @ + 1]
  /\ UNCHANGED <<localStorage, queue, href, kind, hdr, outcome, replayTok,
                 nDispatch, nQueued>>

ResponseError_SkipLogin(r, e) ==
  /\ pc[r] \in {"sent", "replay"}
  /\ lastErr' = [lastErr EXCEPT ![r] = e]
  /\ IF ShouldRefresh(e, retry[r]) /\ kind[r] # "login" /\ hdr[r] # NoHeader
       THEN IF refreshing THEN Enqueue(r) ELSE StartRefresh(r)
       ELSE Propagate(r, e)

ResponseError_NoQueue(r, e) ==
  /\ pc[r] \in {"sent", "replay"}
  /\ lastErr' = [lastErr EXCEPT ![r] = e]
  /\ IF ShouldRefresh(e, retry[r]) THEN StartRefresh(r) ELSE Propagate(r, e)

ResponseError_Inverted(r, e) ==
  /\ pc[r] \in {"sent", "replay"}
  /\ lastErr' = [lastErr EXCEPT ![r] = e]
  /\ IF ShouldRefresh(e, retry[r])
       THEN IF ~refreshing THEN Enqueue(r) ELSE StartRefresh(r)
       ELSE Propagate(r, e)

\* api.interceptors.response.use, the error handler up to its first await
ResponseError(r, e) ==
  /\ pc[r] \in {"sent", "replay"}
  /\ lastErr' = [lastErr EXCEPT ![r] = e]
  /\ IF ShouldRefresh(e, retry[r])
       THEN IF refreshing THEN Enqueue(r) ELSE StartRefresh(r)
       ELSE Propagate(r, e)

\* the success path after the await: store, replay the queue and the original
Replay(r, token, drained) ==
  /\ localStorage' = RefreshStore(localStorage, token)
  /\ LET replayed == drained \cup {r}
         cfgHdr(w) == IF w = r THEN Bearer(token) ELSE hdr[w]
     IN  /\ hdr' = [w \in Reqs |->
                      IF w \in replayed
                        THEN RequestInterceptor(cfgHdr(w),
                                                StoredToken(localStorage'))
                        ELSE hdr[w]]
         /\ pc' = [w \in Reqs |-> IF w \in replayed THEN "replay" ELSE pc[w]]
         /\ replayTok' = [w \in Reqs |->
                            IF w \in replayed THEN token ELSE replayTok[w]]
         /\ nDispatch' = [w \in Reqs |->
                            IF w \in replayed THEN nDispatch[w] + 1
                                              ELSE nDispatch[w]]
  /\ UNCHANGED <<href, kind, retry, outcome, nRefresh, nQueued, lastErr>>

RefreshOk_KeepFlag(r, token) ==
  /\ pc[r] = "awaitRefresh"
  /\ Replay(r, token, Range(queue))
  /\ queue' = <<>>
  /\ refreshing' = refreshing

RefreshOk_DropQueue(r, token) ==
  /\ pc[r] = "awaitRefresh"
  /\ Replay(r, token, {})
  /\ queue' = <<>>
  /\ refreshing' = FALSE

RefreshOk_NoDrain(r, token) ==
  /\ pc[r] = "awaitRefresh"
  /\ Replay(r, token, {})
  /\ queue' = queue
  /\ refreshing' = FALSE

\* the refresh call returned { token }
RefreshOk(r, token) ==
  /\ pc[r] = "awaitRefresh"
  /\ Replay(r, token, Range(queue))
  /\ queue' = <<>>
  /\ refreshing' = FALSE

\* the failure path after the await: reject the queue and the original, log out
Logout(r, e, drained) ==
  /\ LET rejected == drained \cup {r}
     IN  /\ outcome' = [w \in Reqs |->
                          IF w \in rejected THEN RefreshRejection(e)
                                            ELSE outcome[w]]
         /\ pc' = [w \in Reqs |-> IF w \in rejected THEN "done" ELSE pc[w]]
         /\ hdr' = [w \in Reqs |-> IF w \in rejected THEN NoHeader ELSE hdr[w]]
         /\ kind' = [w \in Reqs |-> IF w \in rejected THEN "api" ELSE kind[w]]
  /\ localStorage' = ClearStore(localStorage)
  /\ href' = "/"
  /\ UNCHANGED <<retry, replayTok, nDispatch, nRefresh, nQueued, lastErr>>

RefreshFail_Retry401(r, e) ==
  /\ pc[r] = "awaitRefresh"
  /\ IF ResponseStatus(e) = 401
       THEN /\ nRefresh' = [nRefresh EXCEPT ![r] = @ + 1]
            /\ UNCHANGED <<localStorage, refreshing, queue, href, pc, kind,
                           retry, hdr, outcome, replayTok, nDispatch, nQueued,
                           lastErr>>
       ELSE /\ Logout(r, e, Range(queue))
            /\ queue' = <<>>
            /\ refreshing' = FALSE

RefreshFail_DropWaiters(r, e) ==
  /\ pc[r] = "awaitRefresh"
  /\ Logout(r, e, {})
  /\ queue' = <<>>
  /\ refreshing' = FALSE

RefreshFail_NoDrain(r, e) ==
  /\ pc[r] = "awaitRefresh"
  /\ Logout(r, e, {})
  /\ queue' = queue
  /\ refreshing' = FALSE

\* the refresh call failed with e
RefreshFail(r, e) ==
  /\ pc[r] = "awaitRefresh"
  /\ Logout(r, e, Range(queue))
  /\ queue' = <<>>
  /\ refreshing' = FALSE

\* the gateway never calls parseJwtExpMs
Next ==
  \/ (\E r \in Reqs, k \in Kinds : Send(r, k)) /\ UNCHANGED aside
  \/ (\E r \in Reqs : ResponseOk(r)) /\ UNCHANGED aside
  \/ (\E r \in Reqs, t \in Tokens, now \in Times : LoginOk(r, t, now))
       /\ UNCHANGED aside
  \/ (\E r \in Reqs, e \in Errors : ResponseError(r, e))
       /\ UNCHANGED aside
  \/ (\E r \in Reqs, t \in Tokens : RefreshOk(r, t)) /\ UNCHANGED aside
  \/ (\E r \in Reqs, e \in Errors : RefreshFail(r, e)) /\ UNCHANGED aside

Spec == Init /\ [][Next]_vars

\* the refresh call comes back, with a token or with a failure
RefreshSettles ==
  /\ \E r \in Reqs :
       \/ \E t \in Tokens : RefreshOk(r, t)
       \/ \E e \in Errors : RefreshFail(r, e)
  /\ UNCHANGED aside

\* the replay of r comes back, with a response or with a failure
ReplaySettles(r) ==
  /\ pc[r] = "replay"
  /\ \/ ResponseOk(r)
     \/ \E t \in Tokens, now \in Times : LoginOk(r, t, now)
     \/ \E e \in Errors : ResponseError(r, e)
  /\ UNCHANGED aside

\* the gateway when the backend answers the refresh call and every replay
SpecLive ==
  /\ Spec
  /\ WF_vars(RefreshSettles)
  /\ \A r \in Reqs : WF_vars(ReplaySettles(r))

\* no response has been handled yet: every request sent so far is in flight
Quiet == \A r \in Reqs : pc[r] \in {"idle", "sent"}

\* a batch of concurrent requests: all are dispatched before any response
NextBatch ==
  \/ (\E r \in Reqs, k \in Kinds : Quiet /\ pc[r] = "idle" /\ Send(r, k))
       /\ UNCHANGED aside
  \/ (\E r \in Reqs : ResponseOk(r)) /\ UNCHANGED aside
  \/ (\E r \in Reqs, t \in Tokens, now \in Times : LoginOk(r, t, now))
       /\ UNCHANGED aside
  \/ (\E r \in Reqs, e \in Errors : ResponseError(r, e))
       /\ UNCHANGED aside
  \/ (\E r \in Reqs, t \in Tokens : RefreshOk(r, t)) /\ UNCHANGED aside
  \/ (\E r \in Reqs, e \in Errors : RefreshFail(r, e)) /\ UNCHANGED aside

SpecBatch == Init /\ [][NextBatch]_vars

\* the first attempt or the replay of r comes back
Answered(r) ==
  /\ pc[r] \in {"sent", "replay"}
  /\ \/ ResponseOk(r)
     \/ \E t \in Tokens, now \in Times : LoginOk(r, t, now)
     \/ \E e \in Errors : ResponseError(r, e)
  /\ UNCHANGED aside

\* the gateway when every network call settles
SpecAnswered ==
  /\ Spec
  /\ WF_vars(RefreshSettles)
  /\ \A r \in Reqs : WF_vars(Answered(r))

ReplayOrder_OriginalFirst(r, waiting) == <<r>> \o waiting

\* queue.forEach((w) => w.res(api(w.original))), then return api(original):
\* the calls of api in the order they are made
ReplayOrder(r, waiting) == waiting \o <<r>>

\* the gateway with the order of the calls of api in each step
NextOrder ==
  \/ (\E r \in Reqs, k \in Kinds : Send(r, k) /\ wire' = <<r>>)
       /\ UNCHANGED jwtVars
  \/ (\E r \in Reqs : ResponseOk(r)) /\ wire' = <<>> /\ UNCHANGED jwtVars
  \/ (\E r \in Reqs, t \in Tokens, now \in Times : LoginOk(r, t, now))
       /\ wire' = <<>> /\ UNCHANGED jwtVars
  \/ (\E r \in Reqs, e \in Errors : ResponseError(r, e))
       /\ wire' = <<>> /\ UNCHANGED jwtVars
  \/ (\E r \in Reqs, t \in Tokens :
         RefreshOk(r, t) /\ wire' = ReplayOrder(r, queue))
       /\ UNCHANGED jwtVars
  \/ (\E r \in Reqs, e \in Errors : RefreshFail(r, e))
       /\ wire' = <<>> /\ UNCHANGED jwtVars

SpecOrder == Init /\ [][NextOrder]_<<vars, wire>>

\* ===================================================== src/utils/jwt.ts
\* the character of a string at position i (1-based)
At(s, i) == SubSeq(s, i, i)

RECURSIVE SplitFrom(_, _, _)
SplitFrom(s, start, i) ==
  IF i > Len(s) THEN <<SubSeq(s, start, Len(s))>>
  ELSE IF At(s, i) = "."
         THEN <<SubSeq(s, start, i - 1)>> \o SplitFrom(s, i + 1, i + 1)
         ELSE SplitFrom(s, start, i + 1)

\* token.split("."): the segments between the separators
Split(s) == SplitFrom(s, 1, 1)

RECURSIVE ReplaceFrom(_, _, _, _)
ReplaceFrom(s, i, a, b) ==
  IF i > Len(s) THEN ""
  ELSE (IF At(s, i) = a THEN b ELSE At(s, i)) \o ReplaceFrom(s, i + 1, a, b)

\* part.replace(/a/g, b) for a one-character pattern
Replace(s, a, b) == ReplaceFrom(s, 1, a, b)

RECURSIVE Repeat(_, _)
\* "=".repeat(n)
Repeat(c, n) == IF n = 0 THEN "" ELSE c \o Repeat(c, n - 1)

\* ------------------------------------------------------------------ atob
Base64Alphabet ==
  "ABCDEFGHIJKLMNOPQRSTUVWXYZabcdefghijklmnopqrstuvwxyz0123456789+/"

AsciiWhitespace == {"\t", "\n", "\f", "\r", " "}

IsBase64Char(c) == \E i \in 1 .. Len(Base64Alphabet) : At(Base64Alphabet, i) = c

Sextet(c) ==
  (CHOOSE i \in 1 .. Len(Base64Alphabet) : At(Base64Alphabet, i) = c) - 1

RECURSIVE StripWhitespace(_, _)
StripWhitespace(s, i) ==
  IF i > Len(s) THEN ""
  ELSE (IF At(s, i) \in AsciiWhitespace THEN "" ELSE At(s, i))
         \o StripWhitespace(s, i + 1)

\* one or two "=" at the end of data whose length is a multiple of four
StripPadding(d) ==
  IF Len(d) % 4 = 0 /\ Len(d) >= 1 /\ At(d, Len(d)) = "="
    THEN IF At(d, Len(d) - 1) = "=" THEN SubSeq(d, 1, Len(d) - 2)
                                    ELSE SubSeq(d, 1, Len(d) - 1)
    ELSE d

RECURSIVE Base64Bytes(_, _)
\* the bytes of the sextets of d from position i on; a last group of two or
\* three characters gives one or two bytes, its spare bits dropped
Base64Bytes(d, i) ==
  LET n == Len(d) - i + 1
      s(k) == Sextet(At(d, i + k))
  IN  IF n <= 0 THEN <<>>
      ELSE IF n >= 4
        THEN LET v == ((s(0) * 64 + s(1)) * 64 + s(2)) * 64 + s(3)
             IN  <<v \div 65536, (v \div 256) % 256, v % 256>>
                   \o Base64Bytes(d, i + 4)
      ELSE IF n = 3
        THEN LET v == (s(0) * 64 + s(1)) * 64 + s(2)
             IN  <<v \div 1024, (v \div 4) % 256>>
      ELSE LET v == s(0) * 64 + s(1)
           IN  <<v \div 16>>

\* the result of a call that raised
Threw == [threw |-> TRUE, bytes |-> <<>>]

\* the bytes of the data left once whitespace and padding are removed
DecodeStripped(d) ==
  IF \/ Len(d) % 4 = 1
     \/ \E i \in 1 .. Len(d) : ~IsBase64Char(At(d, i))
    THEN Threw
    ELSE [threw |-> FALSE, bytes |-> Base64Bytes(d, 1)]

\* atob(data), the platform's forgiving base64 decoder: the character codes
\* of the decoded string, or an InvalidCharacterError
atob(data) == DecodeStripped(StripPadding(StripWhitespace(data, 1)))

\* ------------------------------------------------------------ JSON.parse
\* the printable ASCII characters from code 32 to 95 and from 97 to 126
AsciiTo95 ==
  " !\"#$%&'()*+,-./0123456789:;<=>?@ABCDEFGHIJKLMNOPQRSTUVWXYZ[\\]^_"
AsciiFrom97 == "abcdefghijklmnopqrstuvwxyz{|}~"

\* the character code of a printable ASCII character
Code(c) ==
  IF \E i \in 1 .. Len(AsciiTo95) : At(AsciiTo95, i) = c
    THEN 31 + CHOOSE i \in 1 .. Len(AsciiTo95) : At(AsciiTo95, i) = c
    ELSE 96 + CHOOSE i \in 1 .. Len(AsciiFrom97) : At(AsciiFrom97, i) = c

\* tab, line feed, carriage return, space
JsonWhitespace == {9, 10, 13, 32}

IsDigit(b) == b >= Code("0") /\ b <= Code("9")

\* a value that did not parse: JSON.parse raises a SyntaxError
NoValue ==
  [ok |-> FALSE, next |-> 0, type |-> "-", num |-> 0,
   hasExp |-> FALSE, expType |-> "-", expNum |-> 0]

\* a parsed value of the given type ending before position next; num is the
\* value of an integer, and the exp fields are those of an object's own
\* property "exp"
Value(next, type, num) ==
  [ok |-> TRUE, next |-> next, type |-> type, num |-> num,
   hasExp |-> FALSE, expType |-> "-", expNum |-> 0]

RECURSIVE SkipWs(_, _)
SkipWs(t, i) ==
  IF i <= Len(t) /\ t[i] \in JsonWhitespace THEN SkipWs(t, i + 1) ELSE i

\* the text has the word at position i
HasWord(t, i, word) ==
  /\ i + Len(word) - 1 <= Len(t)
  /\ \A k \in 1 .. Len(word) : t[i + k - 1] = Code(At(word, k))

Is(t, i, c) == i <= Len(t) /\ t[i] = Code(c)

RECURSIVE DigitsEnd(_, _)
\* the position after the run of digits that starts at i
DigitsEnd(t, i) ==
  IF i <= Len(t) /\ IsDigit(t[i]) THEN DigitsEnd(t, i + 1) ELSE i

RECURSIVE DigitsValue(_, _, _)
DigitsValue(t, i, end) ==
  IF end < i THEN 0
  ELSE DigitsValue(t, i, end - 1) * 10 + (t[end] - Code("0"))

\* the end of the integer part that starts at j: 0, or digits
IntEnd(t, j) == IF Is(t, j, "0") THEN j + 1 ELSE DigitsEnd(t, j)

\* the end of the fraction that may start at k
FracEnd(t, k) == IF Is(t, k, ".") THEN DigitsEnd(t, k + 1) ELSE k

\* the first digit of the exponent that may start at f
ExpStart(t, f) ==
  IF Is(t, f, "e") \/ Is(t, f, "E")
    THEN IF Is(t, f + 1, "+") \/ Is(t, f + 1, "-") THEN f + 2 ELSE f + 1
    ELSE f

\* the end of the exponent whose digits start at e
ExpEnd(t, f, e) == IF e > f THEN DigitsEnd(t, e) ELSE f

\* the number with sign before j, integer part up to k, fraction up to f,
\* exponent digits from e up to n
NumberParts(t, i, j, k, f, e, n) ==
  IF \/ k = j
     \/ Is(t, k, ".") /\ f = k + 1
     \/ e > f /\ n = e
    THEN NoValue
    ELSE IF n > k THEN Value(n, "real", 0)
    ELSE Value(k, "int", IF j > i THEN 0 - DigitsValue(t, j, k - 1)
                                  ELSE DigitsValue(t, j, k - 1))

NumberExp(t, i, j, k, f, e) == NumberParts(t, i, j, k, f, e, ExpEnd(t, f, e))
NumberFrac(t, i, j, k, f) == NumberExp(t, i, j, k, f, ExpStart(t, f))
NumberInt(t, i, j, k) == NumberFrac(t, i, j, k, FracEnd(t, k))
NumberSign(t, i, j) == NumberInt(t, i, j, IntEnd(t, j))

\* number: -? (0 | [1-9][0-9]*) (. [0-9]+)? ([eE] [+-]? [0-9]+)?
ParseNumber(t, i) == NumberSign(t, i, IF Is(t, i, "-") THEN i + 1 ELSE i)

HexDigits == "0123456789abcdef"
HexUpper == "0123456789ABCDEF"

IsHex(b) ==
  \E i \in 1 .. 16 : b = Code(At(HexDigits, i)) \/ b = Code(At(HexUpper, i))

HexValue(b) ==
  (CHOOSE i \in 1 .. 16 :
     b = Code(At(HexDigits, i)) \/ b = Code(At(HexUpper, i))) - 1

\* a string that did not parse
NoString == [ok |-> FALSE, next |-> 0, chars |-> <<>>]

\* the character an escape letter stands for: \" \\ \/ \b \f \n \r \t
Escaped(b) ==
  CASE b = Code("\"") -> Code("\"")
    [] b = Code("\\") -> Code("\\")
    [] b = Code("/") -> Code("/")
    [] b = Code("b") -> 8
    [] b = Code("f") -> 12
    [] b = Code("n") -> 10
    [] b = Code("r") -> 13
    [] b = Code("t") -> 9
    [] OTHER -> 0 - 1

RECURSIVE StringFrom(_, _, _)
\* the characters of the string literal from position i to its closing quote
StringFrom(t, i, acc) ==
  IF i > Len(t) \/ t[i] < 32 THEN NoString
  ELSE IF t[i] = Code("\"") THEN [ok |-> TRUE, next |-> i + 1, chars |-> acc]
  ELSE IF t[i] = Code("\\")
    THEN IF i + 1 > Len(t) THEN NoString
         ELSE IF t[i + 1] = Code("u")
           THEN IF /\ i + 5 <= Len(t)
                   /\ \A k \in 2 .. 5 : IsHex(t[i + k])
                  THEN StringFrom(t, i + 6,
                         Append(acc,
                           ((HexValue(t[i + 2]) * 16 + HexValue(t[i + 3])) * 16
                              + HexValue(t[i + 4])) * 16 + HexValue(t[i + 5])))
                  ELSE NoString
         ELSE IF Escaped(t[i + 1]) >= 0
           THEN StringFrom(t, i + 2, Append(acc, Escaped(t[i + 1])))
           ELSE NoString
  ELSE StringFrom(t, i + 1, Append(acc, t[i]))

\* string: the literal whose opening quote is at position i
ParseString(t, i) == StringFrom(t, i + 1, <<>>)

\* the character codes of a text of printable ASCII characters
Codes(s) == [i \in 1 .. Len(s) |-> Code(At(s, i))]

RECURSIVE ParseValue(_, _)
RECURSIVE ParseElements(_, _)
RECURSIVE ParseMembers(_, _, _)

\* a string value
StringValue(s) == IF s.ok THEN Value(s.next, "string", 0) ELSE NoValue

\* the value that starts at position i, after whitespace
ValueAt(t, i) ==
  IF i > Len(t) THEN NoValue
  ELSE IF Is(t, i, "{")
    THEN IF Is(t, SkipWs(t, i + 1), "}")
           THEN Value(SkipWs(t, i + 1) + 1, "object", 0)
           ELSE ParseMembers(t, i + 1, Value(0, "object", 0))
  ELSE IF Is(t, i, "[")
    THEN IF Is(t, SkipWs(t, i + 1), "]")
           THEN Value(SkipWs(t, i + 1) + 1, "array", 0)
           ELSE ParseElements(t, i + 1)
  ELSE IF Is(t, i, "\"") THEN StringValue(ParseString(t, i))
  ELSE IF HasWord(t, i, "null") THEN Value(i + 4, "null", 0)
  ELSE IF HasWord(t, i, "true") THEN Value(i + 4, "true", 0)
  ELSE IF HasWord(t, i, "false") THEN Value(i + 5, "false", 0)
  ELSE ParseNumber(t, i)

\* value: object, array, string, number, true, false or null, after
\* whitespace
ParseValue(t, i) == ValueAt(t, SkipWs(t, i))

\* after the element that ends before j: another element, or the end
ElementsNext(t, j) ==
  IF Is(t, j, ",") THEN ParseElements(t, j + 1)
  ELSE IF Is(t, j, "]") THEN Value(j + 1, "array", 0)
  ELSE NoValue

ElementEnd(t, v) == IF ~v.ok THEN NoValue ELSE ElementsNext(t, SkipWs(t, v.next))

\* elements: value (, value)* ]
ParseElements(t, i) == ElementEnd(t, ParseValue(t, i))

\* the object with the member key: v; exp is the member the caller reads
WithMember(obj, key, v) ==
  IF key.chars = Codes("exp")
    THEN [obj EXCEPT !.hasExp = TRUE, !.expType = v.type, !.expNum = v.num]
    ELSE obj

\* after the member that ends before j: another member, or the end
MembersNext(t, j, obj) ==
  IF Is(t, j, ",") THEN ParseMembers(t, j + 1, obj)
  ELSE IF Is(t, j, "}") THEN [obj EXCEPT !.next = j + 1]
  ELSE NoValue

MemberEnd(t, obj, key, v) ==
  IF ~v.ok THEN NoValue
  ELSE MembersNext(t, SkipWs(t, v.next), WithMember(obj, key, v))

\* the value of a member, after the colon at position c
MemberValue(t, ok, c) ==
  IF ok /\ Is(t, c, ":") THEN ParseValue(t, c + 1) ELSE NoValue

MemberKey(t, obj, key) ==
  MemberEnd(t, obj, key, MemberValue(t, key.ok, SkipWs(t, key.next)))

\* the name of a member, a string literal at position k
KeyAt(t, k) == IF Is(t, k, "\"") THEN ParseString(t, k) ELSE NoString

\* members: string : value (, string : value)* }, into the object obj; a
\* later member replaces an earlier one of the same name
ParseMembers(t, i, obj) == MemberKey(t, obj, KeyAt(t, SkipWs(t, i)))

\* the value, when nothing but whitespace follows it
WholeText(t, v) == IF v.ok /\ SkipWs(t, v.next) > Len(t) THEN v ELSE NoValue

\* JSON.parse(json): the value of the whole text, or a SyntaxError
JSONParse(t) == WholeText(t, ParseValue(t, 1))

\* ---------------------------------------------------- decodeJwtPayload
Normalize_DashOnly(part) == Replace(part, "-", "+")

\* part.replace(/-/g, "+").replace(/_/g, "/")
Normalize(part) == Replace(Replace(part, "-", "+"), "_", "/")

\* b64 + "=".repeat(pad)
Pad(b64) ==
  b64 \o Repeat("=", IF Len(b64) % 4 # 0 THEN 4 - (Len(b64) % 4) ELSE 0)

\* JSON.parse(json) of the decoded text, when atob gave one
ParseDecoded(json) == IF json.threw THEN NoValue ELSE JSONParse(json.bytes)

\* the payload of the token with these segments
DecodeSegments(segments) ==
  IF Len(segments) < 2 \/ segments[2] = "" THEN NoValue
  ELSE ParseDecoded(atob(Pad(Normalize(segments[2]))))

\* decodeJwtPayload(token): the parsed payload, ok = FALSE when it throws
decodeJwtPayload(token) == DecodeSegments(Split(token))

\* payload?.exp: the property of a record, undefined for every other value
Exp(payload) ==
  IF payload.type = "object" /\ payload.hasExp
    THEN [type |-> payload.expType, num |-> payload.expNum]
    ELSE [type |-> "undefined", num |-> 0]

\* v ?? 0
OrZero(v) ==
  IF v.type \in {"undefined", "null"} THEN [type |-> "int", num |-> 0] ELSE v

\* v * 1000 for an integer or a boolean v
Times1000(v) ==
  CASE v.type = "int" -> v.num * 1000
    [] v.type = "true" -> 1000
    [] v.type = "false" -> 0

\* return (payload?.exp ?? 0) * 1000, and catch { return 0 }
Returned(payload) ==
  IF ~payload.ok THEN [raised |-> FALSE, value |-> 0]
  ELSE [raised |-> FALSE, value |-> Times1000(OrZero(Exp(payload)))]

\* without the catch
Escaping(payload) ==
  IF ~payload.ok THEN [raised |-> TRUE, value |-> 0]
  ELSE [raised |-> FALSE, value |-> Times1000(OrZero(Exp(payload)))]

parseJwtExpMs_NoCatch(token) == Escaping(decodeJwtPayload(token))

\* parseJwtExpMs(token): what the caller gets
parseJwtExpMs(token) == Returned(decodeJwtPayload(token))

\* ----------------------------------------------------- tokens to decode
RECURSIVE Decimal(_)
\* the decimal text of a natural number
Decimal(n) ==
  IF n < 10 THEN At("0123456789", n + 1)
  ELSE Decimal(n \div 10) \o At("0123456789", (n % 10) + 1)

\* JSON.stringify(n) for an integer n
NumberText(n) == IF n < 0 THEN "-" \o Decimal(0 - n) ELSE Decimal(n)

RECURSIVE Base64Text(_, _)
\* RFC 4648 section 4: the base64 text, padded, of the bytes b from i on
Base64Text(b, i) ==
  LET n == Len(b) - i + 1
      ch(x) == At(Base64Alphabet, x + 1)
  IN  IF n <= 0 THEN ""
      ELSE IF n >= 3
        THEN LET v == (b[i] * 256 + b[i + 1]) * 256 + b[i + 2]
             IN  ch(v \div 262144) \o ch((v \div 4096) % 64)
                   \o ch((v \div 64) % 64) \o ch(v % 64)
                   \o Base64Text(b, i + 3)
      ELSE IF n = 2
        THEN LET v == (b[i] * 256 + b[i + 1]) * 4
             IN  ch(v \div 4096) \o ch((v \div 64) % 64) \o ch(v % 64) \o "="
      ELSE LET v == b[i] * 16
           IN  ch(v \div 64) \o ch(v % 64) \o "=="

\* the standard base64 encoding of a text, with its padding
Base64(text) == Base64Text(Codes(text), 1)

RECURSIVE UrlSafe(_, _)
\* RFC 4648 section 5 without padding: + becomes -, / becomes _, = goes
UrlSafe(s, i) ==
  IF i > Len(s) THEN ""
  ELSE (CASE At(s, i) = "+" -> "-"
          [] At(s, i) = "/" -> "_"
          [] At(s, i) = "=" -> ""
          [] OTHER -> At(s, i))
         \o UrlSafe(s, i + 1)

\* the padding-stripped base64url encoding of a text
Base64Url(text) == UrlSafe(Base64(text), 1)

\* header.payload.signature around a payload segment
JwtHeader == "eyJhbGciOiJIUzI1NiJ9"
JwtSignature == "c2ln"
Token(segment) == JwtHeader \o "." \o segment \o "." \o JwtSignature

ExpValues == (0 - 1) .. MaxExp

\* what follows the exp member: nothing, whitespace, or a member whose
\* encoding has the characters 62 and 63 of the alphabet
Fillers ==
  {"", " ", "  ",
   ",\"k\":\"???>>>\"", " ,\"k\":\"???>>>\"", "  ,\"k\":\"???>>>\""}

\* the text of a record with an integer exp field
ExpRecord(n, f) == "{\"exp\":" \o NumberText(n) \o f \o "}"

ExpRecords == {ExpRecord(n, f) : n \in ExpValues, f \in Fillers}

\* payload texts that are not JSON
NotJsonTexts ==
  {"{\"exp\":1", "exp", "{exp:1}", "{\"exp\":01}", "{\"exp\":1}x",
   "{\"exp\":}", "{'exp':1}", "nul", "{\"exp\":1,}", "[1,]", "{\"exp\" 1}",
   "\"exp", "-", "{\"exp\":+1}", "{\"exp\":1.}", "{\"exp\":.5}",
   "{\"a\":\"\\q\",\"exp\":5}"}

\* payload texts of records without an exp field
NoExpTexts ==
  {"{}", "{ }", "{\"sub\":1}", "{\"Exp\":1}", "{\"a\":{\"exp\":1}}",
   "{\"expires\":5}", "{\"sub\":\"exp\"}", "{\"e\":[1,2],\"x\":1.5e3}"}

\* payload texts of other JSON values, and of records whose exp is one
OtherTexts ==
  {"null", "7", "\"exp\"", "[1]", "true", "{\"exp\":null}", "{\"exp\":true}",
   "{\"exp\":false}", "{\"exp\":1,\"exp\":2}", "{\"\\u0065xp\":9}",
   " {\"exp\" : 8 } "}

\* payload segments that are not base64url text: a character outside the
\* alphabet, a length of 1 modulo 4, whitespace
OddSegments ==
  {"eyJleHAi!jF9", "eyJleHAiOjF*", "eyJl$HAiOjF9", "ey=JleHAiOjF9",
   "eyJleHAiOjF9e", "A", "eyJl eHAiOjF9", "eyJl  eHAi  OjF9",
   "eyJleHAiOjEyfQ="}

\* payload segments in standard base64: padded, or with + and /
StandardSegments == {Base64(t) : t \in ExpRecords \cup NoExpTexts}

Segments ==
  {Base64Url(t) :
     t \in ExpRecords \cup NotJsonTexts \cup NoExpTexts \cup OtherTexts}
    \cup OddSegments \cup StandardSegments

\* the strings parseJwtExpMs is called with
JwtInputs ==
  {Token(s) : s \in Segments}
    \cup {JwtHeader \o "." \o s : s \in {Base64Url(t) : t \in ExpRecords}}
    \cup {"", "abc", JwtHeader, "eyJleHAiOjF9", JwtHeader \o "..c2ln",
          JwtHeader \o ".", ".", "..", ".." \o JwtSignature,
          "." \o "eyJleHAiOjF9", "a.eyJleHAiOjF9.b.c"}

\* a caller is about to call parseJwtExpMs(token)
InitJwt ==
  /\ InitGateway
  /\ jwtToken \in JwtInputs
  /\ jwtPc = "call"
  /\ jwtValue = 0
  /\ jwtRaised = FALSE
  /\ wire = <<>>

\* the call parseJwtExpMs(jwtToken), from entry to return
CallParseJwtExpMs ==
  /\ jwtPc = "call"
  /\ jwtPc' = "returned"
  /\ \E got \in {parseJwtExpMs(jwtToken)} :
       jwtValue' = got.value /\ jwtRaised' = got.raised
  /\ UNCHANGED <<jwtToken, vars, wire>>

NextJwt == CallParseJwtExpMs

SpecJwt == InitJwt /\ [][NextJwt]_<<vars, jwtVars>>

\* ------------------------------------------------------------ vocabulary
\* the handlers suspended at `await axios.post(.../auth/refresh)`: each has
\* one refresh call issued and not yet settled
Awaiting == {r \in Reqs : pc[r] = "awaitRefresh"}

\* requests sent at some time
Sent == {r \in Reqs : pc[r] # "idle"}

RECURSIVE SumOver(_, _)
SumOver(f, S) ==
  IF S = {} THEN 0
  ELSE LET x == CHOOSE y \in S : TRUE IN f[x] + SumOver(f, S \ {x})

\* refresh calls issued for the requests now in the slots
TotalRefresh == SumOver(nRefresh, Reqs)

\* this step is the 401 handler of r issuing a refresh call
RefreshStarts(r) == pc[r] # "awaitRefresh" /\ pc'[r] = "awaitRefresh"

\* this step is the handler of r resuming after its refresh call succeeded
RefreshSucceeds(r) == pc[r] = "awaitRefresh" /\ pc'[r] = "replay"

\* this step is the handler of r resuming after its refresh call failed
RefreshFails(r) == pc[r] = "awaitRefresh" /\ pc'[r] = "done"

\* this step is a caller sending a new request in slot r
Sends(r) == pc[r] \in {"idle", "done"} /\ pc'[r] = "sent"

\* a refresh failed since the last successful login: only a login sets the
\* authenticated entry and only a failed refresh removes it
FailedSinceLogin ==
  /\ \E q \in Reqs : outcome[q].of = "refresh"
  /\ ~localStorage.authenticated

\* -------------------------------------------------------------------- C1
\* C1: at most one POST /auth/refresh call is outstanding in every reachable
\* state; a handler issues one only when the flag is false and sets the flag
\* in the same step, and the flag is true while the call is outstanding.
C1_SingleFlight ==
  /\ [](Cardinality(Awaiting) <= 1 /\ (Awaiting # {} => refreshing))
  /\ [][\A r \in Reqs : RefreshStarts(r) => ~refreshing /\ refreshing']_vars

\* a refresh call is outstanding and another request met a 401 meanwhile
C1_Witness == Awaiting # {} /\ Len(queue) >= 1

\* -------------------------------------------------------------------- C2
\* C2 as stated: requests dispatched concurrently that have all received a
\* 401 caused exactly one refresh call in total, whatever the order of the
\* responses.
C2_Original == (Sent # {} /\ \A r \in Sent : retry[r]) => TotalRefresh = 1

\* C2 amended: for requests dispatched concurrently whose 401s all arrive
\* before the refresh response, one refresh call is issued in total, and when
\* it succeeds every one of them is replayed with the token it returned.  A
\* request that has met its first 401 issues no further refresh call.
C2_OneRefreshPerBatch ==
  /\ []((Sent # {} /\ Sent = Awaiting \cup Range(queue)) => TotalRefresh = 1)
  /\ [][\A r \in Reqs : retry[r] => nRefresh'[r] = nRefresh[r]]_vars
  /\ [][\A r \in Reqs :
          (RefreshSucceeds(r) /\ Sent = Awaiting \cup Range(queue)) =>
             /\ TotalRefresh' = 1
             /\ \A w \in Sent :
                  /\ pc'[w] = "replay"
                  /\ replayTok'[w] = replayTok'[r]
                  /\ replayTok'[w] # NoToken
                  /\ hdr'[w] = Bearer(replayTok'[w])]_vars

\* every request of the batch is being replayed after the one refresh
C2_Witness ==
  /\ Sent = Reqs
  /\ TotalRefresh = 1
  /\ \A r \in Reqs : pc[r] = "replay" /\ hdr[r] = Bearer(localStorage.token)

\* -------------------------------------------------------------------- C3
\* C3: a request whose first 401 arrives while the flag is true issues no
\* refresh call; it stays in the queue until that refresh settles, and when
\* the refresh succeeded its replay carries the token that refresh stored.
C3_QueuedWaitsForRefresh ==
  /\ [](\A r \in Reqs :
          /\ pc[r] = "queued" =>
               r \in Range(queue) /\ refreshing /\ Awaiting # {}
          /\ nQueued[r] >= 1 => nRefresh[r] = 0
          /\ (pc[r] = "replay" /\ nQueued[r] >= 1) =>
               hdr[r] = Bearer(replayTok[r]))
  /\ [][\A r \in Reqs :
          (pc[r] = "queued" /\ pc'[r] # "queued") =>
             \E o \in Awaiting :
               \/ /\ RefreshSucceeds(o)
                  /\ pc'[r] = "replay"
                  /\ replayTok'[r] = localStorage'.token
                  /\ replayTok'[r] # NoToken
                  /\ hdr'[r] = Bearer(replayTok'[r])
               \/ /\ RefreshFails(o)
                  /\ pc'[r] = "done"
                  /\ nDispatch'[r] = 1]_vars

\* a queued request is being replayed with the stored token
C3_Witness ==
  \E r \in Reqs :
    /\ pc[r] = "replay"
    /\ nQueued[r] = 1
    /\ nDispatch[r] = 2
    /\ hdr[r] = Bearer(localStorage.token)

\* -------------------------------------------------------------------- C4
\* C4: a request already marked as retried that receives a 401 on its replay
\* starts no refresh call and is not enqueued; the failure goes to its
\* caller, whether or not a refresh is in flight.
C4_OneShotRetry ==
  /\ [](\A r \in Reqs : pc[r] = "replay" => retry[r])
  /\ [][\A r \in Reqs :
          (pc[r] = "replay" /\ pc'[r] # "replay") =>
             /\ pc'[r] = "done"
             /\ outcome'[r].of = "request"
             /\ nRefresh'[r] = nRefresh[r]
             /\ nQueued'[r] = nQueued[r]
             /\ refreshing' = refreshing
             /\ queue' = queue]_vars

\* the replay of a request failed with 401 while another refresh is in flight
C4_Witness ==
  \E r \in Reqs :
    /\ pc[r] = "done"
    /\ nDispatch[r] = 2
    /\ outcome[r] = Rejected("request", "http401")
    /\ refreshing

\* -------------------------------------------------------------------- C5
\* what C5 says of the step in which the refresh call fails
C5_FailureStep ==
  \A r \in Reqs :
    RefreshFails(r) =>
      /\ \A w \in Range(queue) : pc'[w] = "done" /\ outcome'[w].result = "fail"
      /\ \A w \in Reqs : pc'[w] # "queued"
      /\ queue' = <<>>
      /\ localStorage'.token = NoToken

\* C5 as stated: when the refresh fails every waiter is rejected, the stored
\* credential is cleared, and every send issued afterwards and before a new
\* login is dispatched with no Authorization header.
C5_Original ==
  [][/\ C5_FailureStep
     /\ \A r \in Reqs :
          (FailedSinceLogin /\ Sends(r)) => hdr'[r] = NoHeader]_vars

\* C5 amended: ... every send issued afterwards and before a new login or a
\* later successful refresh is dispatched with no Authorization header.
C5_FailureCleanup ==
  [][/\ C5_FailureStep
     /\ \A r \in Reqs :
          (FailedSinceLogin /\ localStorage.token = NoToken /\ Sends(r)) =>
             hdr'[r] = NoHeader]_vars

\* a waiter was rejected by the failed refresh and the next request goes out
\* without the header
C5_Witness ==
  \E r, w \in Reqs :
    /\ nQueued[w] = 1 /\ pc[w] = "done" /\ outcome[w].of = "refresh"
    /\ pc[r] = "sent" /\ hdr[r] = NoHeader
    /\ ~localStorage.authenticated /\ localStorage.token = NoToken

\* -------------------------------------------------------------------- C6
\* C6: when the refresh call fails, the originally failing request and every
\* waiter are rejected with the failure of the refresh call, not with their
\* own 401, and the location becomes "/".
C6_RefreshFailureDelivered ==
  [][\A r \in Reqs :
       RefreshFails(r) =>
         /\ outcome'[r].result = "fail" /\ outcome'[r].of = "refresh"
         /\ \A w \in Range(queue) : outcome'[w] = outcome'[r]
         /\ href' = "/"]_vars

\* two callers hold the failure of a refresh call that was not a 401
C6_Witness ==
  /\ href = "/"
  /\ \E r, w \in Reqs :
       /\ nRefresh[r] = 1 /\ nQueued[w] = 1
       /\ outcome[r] = Rejected("refresh", "network")
       /\ outcome[w] = Rejected("refresh", "network")

\* -------------------------------------------------------------------- C7
\* C7: a request whose first 401 arrives while no refresh is active issues
\* exactly one refresh call; when it returns a token, the token is stored, the
\* request is dispatched again carrying it, and the caller, who has seen
\* nothing so far, receives the outcome of that replay.
C7_RefreshAndReplay ==
  /\ [](\A r \in Reqs :
          pc[r] \in {"awaitRefresh", "queued", "replay"} =>
            outcome[r] = Pending)
  /\ [][\A r \in Reqs :
          /\ RefreshStarts(r) => nRefresh[r] = 0 /\ nRefresh'[r] = 1
          /\ RefreshSucceeds(r) =>
               /\ nRefresh'[r] = 1
               /\ nDispatch'[r] = 2
               /\ replayTok'[r] # NoToken
               /\ localStorage'.token = replayTok'[r]
               /\ hdr'[r] = Bearer(replayTok'[r])
          /\ (pc[r] = "replay" /\ pc'[r] = "done") =>
               outcome'[r].of = "request"]_vars

\* the caller of a request that triggered a refresh has the replay's response
C7_Witness ==
  \E r \in Reqs :
    pc[r] = "done" /\ nRefresh[r] = 1 /\ nDispatch[r] = 2
      /\ outcome[r] = Fulfilled

\* -------------------------------------------------------------------- C8
\* C8: whenever the flag is false the queue is empty, and the step in which a
\* refresh call settles, with either result, leaves the queue empty.
C8_QueueOnlyWhileRefreshing ==
  /\ [](~refreshing => queue = <<>> /\ \A r \in Reqs : pc[r] # "queued")
  /\ [][\A r \in Reqs :
          (RefreshSucceeds(r) \/ RefreshFails(r)) => queue' = <<>>]_vars

\* the queue held a request and a successful refresh has emptied it
C8_Witness ==
  /\ ~refreshing
  /\ queue = <<>>
  /\ \E r \in Reqs : nQueued[r] = 1 /\ pc[r] = "replay"

\* -------------------------------------------------------------------- C9
\* C9: the flag turns true in the step that issues the refresh call, and
\* turns false only in the step in which that call settles, which also empties
\* the queue and hands every waiter a replay or a rejection.
C9_FlagLifecycle ==
  [][/\ (~refreshing /\ refreshing') =>
          \E r \in Reqs : RefreshStarts(r) /\ nRefresh'[r] = nRefresh[r] + 1
     /\ \A r \in Reqs : RefreshStarts(r) => refreshing'
     /\ (refreshing /\ ~refreshing') =>
          /\ \E r \in Reqs : RefreshSucceeds(r) \/ RefreshFails(r)
          /\ queue' = <<>>
          /\ \A w \in Range(queue) : pc'[w] \in {"replay", "done"}
          /\ \A w \in Reqs : pc'[w] # "queued"]_vars

\* the flag is false again after a failed refresh that rejected a waiter
C9_Witness ==
  /\ ~refreshing
  /\ \E r \in Reqs :
       nQueued[r] = 1 /\ pc[r] = "done" /\ outcome[r].of = "refresh"

\* ------------------------------------------------------------------- C10
\* a waiter drained by a refresh whose replay has not yet settled
DrainedUnresolved == {w \in Reqs : pc[w] = "replay" /\ nQueued[w] >= 1}

\* C10 as stated: no refresh call starts while the replay of a drained waiter
\* is dispatched and its caller has not yet received the outcome.
C10_Original ==
  [][\A r \in Reqs : RefreshStarts(r) => DrainedUnresolved = {}]_vars

\* C10 amended: no refresh call starts while a request is still in the queue
\* or suspended on it; the replay of a drained waiter may still be in flight
\* when the next refresh call starts.
C10_NoRefreshDuringDrain ==
  [][\A r \in Reqs :
       RefreshStarts(r) =>
         /\ queue = <<>>
         /\ \A w \in Reqs : pc[w] # "queued"
         /\ Awaiting = {}]_vars

\* a second refresh call is outstanding while a waiter drained by the first
\* is still being replayed
C10_Witness == Awaiting # {} /\ DrainedUnresolved # {} /\ queue = <<>>

\* ------------------------------------------------------------------- C11
\* C11: when the refresh call and every replay settle, every request
\* suspended in the queue ends with an outcome at its caller, and with one
\* only: the outcome of its own replay after a successful refresh, the
\* rejection with the refresh failure after a failed one.
C11_WaitersDelivered ==
  /\ \A r \in Reqs :
       (pc[r] = "queued") ~> (pc[r] = "done" /\ outcome[r] # Pending)
  /\ [][\A r \in Reqs :
          /\ (nQueued[r] >= 1 /\ pc[r] # "done" /\ pc'[r] = "done") =>
               \/ pc[r] = "replay" /\ outcome'[r].of = "request"
               \/ /\ pc[r] = "queued"
                  /\ outcome'[r].result = "fail"
                  /\ outcome'[r].of = "refresh"
          /\ (outcome[r] # Pending /\ outcome'[r] # outcome[r]) =>
               Sends(r)]_vars

\* the caller of a queued request holds the failure of its own replay
C11_Witness ==
  \E r \in Reqs :
    /\ pc[r] = "done"
    /\ nQueued[r] = 1
    /\ nDispatch[r] = 2
    /\ outcome[r] = Rejected("request", "http500")

\* ------------------------------------------------------------------- C12
\* C12: the stored credential is removed and the location forced to "/" only
\* in the step in which a refresh call fails; the failure of a replay, a 401
\* included, goes to the caller with storage and location unchanged.
C12_LogoutOnlyOnRefreshFailure ==
  [][/\ (localStorage.token # NoToken /\ localStorage'.token = NoToken) =>
          \E r \in Reqs : RefreshFails(r)
     /\ (href # "/" /\ href' = "/") => \E r \in Reqs : RefreshFails(r)
     /\ \A r \in Reqs :
          (pc[r] = "replay" /\ pc'[r] = "done"
             /\ outcome'[r].result = "fail") =>
            /\ outcome'[r].of = "request"
            /\ localStorage' = localStorage
            /\ href' = href]_vars

\* a replay was rejected with 401 and the session is still in place
C12_Witness ==
  /\ localStorage.token # NoToken
  /\ href = "/dashboard"
  /\ \E r \in Reqs :
       /\ pc[r] = "done"
       /\ nDispatch[r] = 2
       /\ outcome[r] = Rejected("request", "http401")

\* ------------------------------------------------------------------- C13
\* C13: a failure that is not an HTTP 401 response, a failure without any
\* response included, goes to the caller as it is and at once: the request
\* is not marked, not queued, no refresh call is issued, and the flag, the
\* queue and the stored credential stay as they are.
C13_OtherFailuresPropagate ==
  /\ [](\A r \in Reqs :
          pc[r] \in {"awaitRefresh", "queued"} => lastErr[r] = "http401")
  /\ [][\A r \in Reqs :
          (pc[r] \in {"sent", "replay"} /\ pc'[r] # pc[r]
             /\ lastErr'[r] \in {"http500", "network"}) =>
            /\ pc'[r] = "done"
            /\ outcome'[r] = Rejected("request", lastErr'[r])
            /\ retry' = retry
            /\ nRefresh' = nRefresh
            /\ nQueued' = nQueued
            /\ refreshing' = refreshing
            /\ queue' = queue
            /\ localStorage' = localStorage
            /\ href' = href]_vars

\* a first attempt failed without a response while a refresh is in flight
C13_Witness ==
  /\ refreshing
  /\ \E r \in Reqs :
       /\ pc[r] = "done"
       /\ nDispatch[r] = 1
       /\ ~retry[r]
       /\ outcome[r] = Rejected("request", "network")

\* ------------------------------------------------------------------- C14
\* the Authorization header that goes with the stored credential t
HeaderFor(t) == IF t # NoToken THEN Bearer(t) ELSE NoHeader

\* C14: every dispatch, first attempt or replay, carries Bearer t for the
\* credential t in storage at that moment, and no Authorization header when
\* storage holds none.
C14_DispatchCarriesStoredToken ==
  [][\A r \in Reqs :
       (Sends(r) \/ (pc[r] # "replay" /\ pc'[r] = "replay")) =>
          hdr'[r] = HeaderFor(localStorage'.token)]_vars

\* a replay under way with a header, and a first attempt sent without one
\* after storage was cleared
C14_Witness ==
  /\ localStorage.token = NoToken
  /\ \E r, w \in Reqs :
       /\ pc[r] = "sent" /\ hdr[r] = NoHeader
       /\ pc[w] = "replay" /\ hdr[w] # NoHeader

\* ------------------------------------------------------------------- C15
\* C15: a send whose first response is a success has made one network call
\* and no refresh call, its caller has the response, and the flag, the
\* queue, the retry marker and the stored credential are as before.  (After
\* a login the caller, SignIn.handleSubmit, writes storage itself.)
C15_SuccessIsTransparent ==
  [][\A r \in Reqs :
       (pc[r] = "sent" /\ pc'[r] = "done" /\ outcome'[r] = Fulfilled) =>
          /\ nDispatch'[r] = 1
          /\ nRefresh' = nRefresh /\ nRefresh'[r] = 0
          /\ nQueued' = nQueued /\ nQueued'[r] = 0
          /\ retry' = retry /\ ~retry'[r]
          /\ refreshing' = refreshing
          /\ queue' = queue
          /\ kind[r] = "api" => localStorage' = localStorage /\ href' = href]_vars

\* a first attempt succeeded while a refresh is in flight
C15_Witness ==
  /\ refreshing
  /\ \E r \in Reqs :
       /\ pc[r] = "done"
       /\ nDispatch[r] = 1
       /\ ~retry[r]
       /\ outcome[r] = Fulfilled

\* ------------------------------------------------------------------- C16
\* C16: when the refresh succeeds, every request in the queue and the
\* originally failing request are dispatched again in that step with the new
\* credential; none is skipped or rejected.
C16_AllReplayedOnSuccess ==
  [][\A r \in Reqs :
       RefreshSucceeds(r) =>
         /\ localStorage'.token # NoToken
         /\ \A w \in Range(queue) \cup {r} :
              /\ pc'[w] = "replay"
              /\ nDispatch'[w] = nDispatch[w] + 1
              /\ outcome'[w] = Pending
              /\ replayTok'[w] = localStorage'.token
              /\ hdr'[w] = Bearer(localStorage'.token)]_vars

\* the original and a queued request are both being replayed with the token
C16_Witness ==
  \E r, w \in Reqs :
    /\ nRefresh[r] = 1 /\ nQueued[w] = 1
    /\ pc[r] = "replay" /\ pc[w] = "replay"
    /\ nDispatch[r] = 2 /\ nDispatch[w] = 2
    /\ hdr[r] = Bearer(replayTok[r]) /\ hdr[w] = hdr[r]

\* ------------------------------------------------------------------- C17
\* this step is the login request of slot r coming back with a token
LoginSucceeds(r) ==
  /\ kind[r] = "login"
  /\ pc[r] \in {"sent", "replay"}
  /\ pc'[r] = "done"
  /\ outcome'[r] = Fulfilled

\* C17: the stored credential changes only when a login succeeds (written),
\* a refresh succeeds (overwritten) or a refresh fails (removed); a failed
\* login that did not go through a failed refresh leaves it as it was.
C17_CredentialWriters ==
  [][/\ localStorage'.token # localStorage.token =>
          \E r \in Reqs :
            \/ LoginSucceeds(r) /\ localStorage'.token \in Tokens
            \/ RefreshSucceeds(r) /\ localStorage'.token \in Tokens
            \/ RefreshFails(r) /\ localStorage'.token = NoToken
     /\ \A r \in Reqs :
          (kind[r] = "login" /\ pc[r] \in {"sent", "replay"}
             /\ pc'[r] = "done" /\ outcome'[r].result = "fail") =>
            localStorage' = localStorage]_vars

\* a failed refresh removed the credential and a later login wrote one
C17_Witness ==
  /\ localStorage.token # NoToken
  /\ localStorage.authenticated
  /\ \E q \in Reqs : outcome[q].of = "refresh"

\* ------------------------------------------------------------------- C18
\* no refresh call settles in this step
NoRefreshSettles ==
  \A o \in Reqs : ~RefreshSucceeds(o) /\ ~RefreshFails(o)

\* C18: as long as the refresh call does not settle, the flag stays true,
\* every queued request stays queued with its caller holding nothing, and a
\* request whose first 401 arrives is queued too: nothing but the settlement
\* of the refresh call completes a queued caller.
C18_NoTimeout ==
  [][NoRefreshSettles =>
       /\ refreshing => refreshing'
       /\ \A r \in Reqs :
            /\ pc[r] = "queued" => pc'[r] = "queued" /\ outcome'[r] = Pending
            /\ (refreshing /\ pc[r] = "sent" /\ pc'[r] # "sent"
                  /\ lastErr'[r] = "http401") =>
                 pc'[r] = "queued" /\ outcome'[r] = Pending]_vars

\* a request is suspended behind an outstanding refresh call
C18_Witness ==
  /\ Awaiting # {}
  /\ \E r \in Reqs :
       pc[r] = "queued" /\ outcome[r] = Pending /\ lastErr[r] = "http401"

\* ------------------------------------------------------------------- C19
\* client storage with other values of the two entries the login screen adds
AltStores(store) ==
  {[store EXCEPT !.authenticated = a, !.expires_at = x] :
     a \in BOOLEAN, x \in {0} \cup {now + HourMs : now \in Times}}

\* C19: a successful login stores the returned token with authenticated =
\* "true" and expires_at = Date.now() + one hour, and a failed login writes
\* no entry; what the gateway dispatches and whether it refreshes or queues
\* is the same for every value of authenticated and expires_at.
C19_LoginStoresSession ==
  [][\A r \in Reqs :
       /\ LoginSucceeds(r) =>
            \E t \in Tokens, now \in Times :
              localStorage' = [token |-> t, authenticated |-> TRUE,
                               expires_at |-> now + 60 * 60 * 1000]
       /\ (kind[r] = "login" /\ pc[r] # "done" /\ pc'[r] = "done"
             /\ outcome'[r].result = "fail") =>
            localStorage' \in {localStorage, EmptyStorage}
       /\ Sends(r) =>
            \A alt \in AltStores(localStorage) :
              hdr'[r] = RequestInterceptor(NoHeader, StoredToken(alt))
       /\ (pc[r] # "replay" /\ pc'[r] = "replay") =>
            \A alt \in AltStores(localStorage') :
              hdr'[r] = RequestInterceptor(hdr'[r], StoredToken(alt))
       /\ (pc[r] = "sent" /\ pc'[r] # "sent" /\ lastErr'[r] = "http401") =>
            pc'[r] = IF refreshing THEN "queued" ELSE "awaitRefresh"]_vars

\* the session was removed by a failed refresh and a login at the latest
\* clock reading has stored a new one
C19_Witness ==
  /\ localStorage.token # NoToken
  /\ localStorage.authenticated
  /\ localStorage.expires_at = MaxNow + HourMs
  /\ href = "/dashboard"
  /\ \E r, q \in Reqs : outcome[r] = Fulfilled /\ outcome[q].of = "refresh"

\* ------------------------------------------------------------------- C20
\* the first and the second "." of a string, Len + 1 where there is none
DotAfter(s, i) ==
  IF \E k \in i .. Len(s) : At(s, k) = "."
    THEN CHOOSE k \in i .. Len(s) :
           At(s, k) = "." /\ \A j \in i .. k - 1 : At(s, j) # "."
    ELSE Len(s) + 1

HasDot(s) == \E k \in 1 .. Len(s) : At(s, k) = "."

\* the payload segment of a token that has a "."
PayloadSegment(s) ==
  SubSeq(s, DotAfter(s, 1) + 1, DotAfter(s, DotAfter(s, 1) + 1) - 1)

Base64UrlAlphabet ==
  "ABCDEFGHIJKLMNOPQRSTUVWXYZabcdefghijklmnopqrstuvwxyz0123456789-_"

\* every character of s is one of those of the string chars
MadeOf(s, chars) ==
  \A i \in 1 .. Len(s) : \E k \in 1 .. Len(chars) : At(s, i) = At(chars, k)

\* padding-stripped base64url text (RFC 4648 section 5, RFC 7515)
IsBase64Url(s) == MadeOf(s, Base64UrlAlphabet) /\ Len(s) % 4 # 1

\* the segment is the encoding of one of the texts
Encodes(s, texts) == \E t \in texts : s = Base64Url(t)

\* the malformed inputs the claim lists, but for the base64url case
MalformedElsewhere(token) ==
  \/ token = ""
  \/ ~HasDot(token)
  \/ /\ HasDot(token)
     /\ \/ PayloadSegment(token) = ""
        \/ Encodes(PayloadSegment(token), NotJsonTexts \cup NoExpTexts)

\* C20 as stated: parseJwtExpMs returns 0 and does not raise for the empty
\* string, a string without ".", an empty payload segment, a payload segment
\* that is not valid base64url, a payload that is not JSON and a record
\* without exp.
C20_Original ==
  (/\ jwtPc = "returned"
   /\ \/ MalformedElsewhere(jwtToken)
      \/ HasDot(jwtToken) /\ ~IsBase64Url(PayloadSegment(jwtToken))) =>
    jwtValue = 0 /\ ~jwtRaised

\* the segment has a length of 1 modulo 4 or a character that is neither
\* a base64url character nor one atob accepts (+ / = and ASCII whitespace)
Undecodable(s) ==
  \/ Len(s) % 4 = 1
  \/ ~MadeOf(s, Base64UrlAlphabet \o "+/=" \o "\t\n\f\r ")

\* C20 amended: parseJwtExpMs never raises, and it returns 0 for the empty
\* string, a string without ".", an empty payload segment, a payload segment
\* that atob cannot decode (a length of 1 modulo 4, or a character that is
\* neither base64url nor standard base64, "=" or ASCII whitespace), a payload
\* that is not JSON and a record without exp.
C20_MalformedGivesZero ==
  jwtPc = "returned" =>
    /\ ~jwtRaised
    /\ (\/ MalformedElsewhere(jwtToken)
        \/ HasDot(jwtToken) /\ Undecodable(PayloadSegment(jwtToken))) =>
         jwtValue = 0

\* a token whose payload is a record without exp has been decoded
C20_Witness ==
  /\ jwtPc = "returned"
  /\ jwtValue = 0
  /\ HasDot(jwtToken)
  /\ Encodes(PayloadSegment(jwtToken), NoExpTexts)

\* ------------------------------------------------------------------- C21
\* the string has the character c
HasChar(s, c) == \E i \in 1 .. Len(s) : At(s, i) = c

\* the three-segment tokens of the records with an integer exp, each with
\* exp * 1000
ExpTokens ==
  {[token |-> Token(Base64Url(ExpRecord(n, f))), ms |-> n * 1000] :
     n \in ExpValues, f \in Fillers}

\* C21: for a three-segment token whose payload segment is the
\* padding-stripped base64url encoding of a record with an integer exp,
\* parseJwtExpMs returns exp * 1000 and does not raise, whatever the length
\* of the segment modulo 4 and also when it has the characters - and _.
C21_ValidGivesExpMs ==
  jwtPc = "returned" =>
    \A x \in ExpTokens :
      jwtToken = x.token => jwtValue = x.ms /\ ~jwtRaised

\* a token whose segment needs padding and has - and _ gave a value other
\* than 0
C21_Witness ==
  /\ jwtPc = "returned"
  /\ jwtValue = MaxExp * 1000
  /\ \E x \in ExpTokens : jwtToken = x.token /\ x.ms = MaxExp * 1000
  /\ Len(PayloadSegment(jwtToken)) % 4 = 3
  /\ HasChar(PayloadSegment(jwtToken), "-")
  /\ HasChar(PayloadSegment(jwtToken), "_")

\* ------------------------------------------------------------------- C23
\* C23: the handler of the settled refresh call is one step: it writes or
\* clears the credential, empties the queue and resets the flag together.
\* So no request is queued unless a refresh call is in flight, and a caller
\* that gets the outcome of a refresh finds the flag false and the queue
\* empty.
C23_SettleIsOneStep ==
  /\ [](\A r \in Reqs :
          (pc[r] = "queued" \/ queue # <<>>) => refreshing /\ Awaiting # {})
  /\ [][\A r \in Reqs :
          /\ RefreshSucceeds(r) =>
               /\ localStorage'.token \in Tokens
               /\ queue' = <<>> /\ ~refreshing'
               /\ \A w \in Reqs : pc'[w] # "queued"
          /\ RefreshFails(r) =>
               /\ localStorage' = EmptyStorage
               /\ queue' = <<>> /\ ~refreshing'
               /\ \A w \in Reqs : pc'[w] # "queued"
          /\ (outcome'[r] # outcome[r] /\ outcome'[r].of = "refresh") =>
               queue' = <<>> /\ ~refreshing']_vars

\* the originator and a waiter have both received the failure of the refresh
C23_Witness ==
  /\ ~refreshing
  /\ queue = <<>>
  /\ localStorage = EmptyStorage
  /\ \E r, w \in Reqs :
       /\ nRefresh[r] = 1 /\ outcome[r].of = "refresh"
       /\ nQueued[w] = 1 /\ outcome[w].of = "refresh"

\* ------------------------------------------------------------------- C24
\* C24: a send makes at most two network dispatches of its request and at
\* most one refresh call, and when every network call settles it ends with
\* an outcome for its caller.
C24_SendTerminates ==
  /\ [](\A r \in Reqs : nDispatch[r] <= 2 /\ nRefresh[r] <= 1)
  /\ \A r \in Reqs :
       (pc[r] = "sent") ~> (pc[r] = "done" /\ outcome[r] # Pending)

\* a send ended after its one refresh and its one replay
C24_Witness ==
  \E r \in Reqs :
    /\ pc[r] = "done"
    /\ nDispatch[r] = 2
    /\ nRefresh[r] = 1
    /\ outcome[r] = Fulfilled

\* ------------------------------------------------------------------- C25
\* C25: a first 401 that arrives while the flag is false starts a refresh
\* call, also when the credential in storage is no longer the one the
\* request was sent with: the two are not compared.
C25_StaleStartsRefresh ==
  [][\A r \in Reqs :
       (~refreshing /\ pc[r] = "sent" /\ pc'[r] # "sent"
          /\ lastErr'[r] = "http401") =>
         /\ pc'[r] = "awaitRefresh"
         /\ refreshing'
         /\ nRefresh'[r] = nRefresh[r] + 1
         /\ nDispatch' = nDispatch
         /\ hdr' = hdr]_vars

\* a refresh call was started for a request sent with a credential that a
\* completed refresh had already replaced
C25_Witness ==
  \E r, w \in Reqs :
    /\ pc[r] = "awaitRefresh"
    /\ hdr[r] # NoHeader
    /\ hdr[r] # Bearer(localStorage.token)
    /\ pc[w] = "replay"
    /\ replayTok[w] = localStorage.token

\* ------------------------------------------------------------------- C26
\* C26: after a successful refresh each replay ends on its own: the caller
\* gets the outcome of its own replay, no other request is touched, and a
\* failed replay neither clears the credential nor navigates.
C26_ReplaysIndependent ==
  [][\A r \in Reqs :
       (pc[r] = "replay" /\ pc'[r] = "done") =>
         /\ outcome'[r] \in {Fulfilled, Rejected("request", lastErr'[r])}
         /\ \A w \in Reqs \ {r} :
              /\ pc'[w] = pc[w]
              /\ outcome'[w] = outcome[w]
              /\ hdr'[w] = hdr[w]
         /\ queue' = queue
         /\ refreshing' = refreshing
         /\ outcome'[r].result = "fail" =>
              localStorage' = localStorage /\ href' = href]_vars

\* the replay of the original failed with 401 while the replay of a waiter
\* is still in flight
C26_Witness ==
  /\ localStorage.token # NoToken
  /\ \E r, w \in Reqs :
       /\ nRefresh[r] = 1 /\ nDispatch[r] = 2
       /\ outcome[r] = Rejected("request", "http401")
       /\ nQueued[w] = 1 /\ pc[w] = "replay" /\ outcome[w] = Pending

\* ------------------------------------------------------------------- C27
\* C27: the refresh call does not go through the 401 handling: while it is
\* in flight its request is not marked again, queued or retried, and a
\* failure of it of any kind rejects the original and every waiter with
\* that failure, clears storage and navigates to "/".
C27_RefreshBypassesGateway ==
  [][\A r \in Reqs :
       /\ pc[r] = "awaitRefresh" =>
            /\ nRefresh'[r] = nRefresh[r]
            /\ \A w \in Reqs \ {r} : pc'[w] # "awaitRefresh"
            /\ pc'[r] \in {"awaitRefresh", "replay", "done"}
            /\ r \notin Range(queue')
       /\ RefreshFails(r) =>
            /\ \E e \in Errors :
                 \A w \in Range(queue) \cup {r} :
                   pc'[w] = "done" /\ outcome'[w] = Rejected("refresh", e)
            /\ localStorage' = EmptyStorage
            /\ href' = "/"
            /\ queue' = <<>>
            /\ ~refreshing']_vars

\* the refresh call itself was answered 401 and the session is gone
C27_Witness ==
  /\ localStorage = EmptyStorage
  /\ href = "/"
  /\ ~refreshing
  /\ \E r \in Reqs :
       nRefresh[r] = 1 /\ outcome[r] = Rejected("refresh", "http401")

C29_RefreshStorageFrame ==
  [][\A r \in Reqs :
       /\ RefreshSucceeds(r) =>
            /\ localStorage'.token \in Tokens
            /\ localStorage'.authenticated = localStorage.authenticated
            /\ localStorage'.expires_at = localStorage.expires_at
       /\ RefreshFails(r) =>
            /\ localStorage'.token = NoToken
            /\ ~localStorage'.authenticated
            /\ localStorage'.expires_at = 0]_vars

\* a refresh has stored a token where a login never stored the other entries
C29_Witness ==
  /\ localStorage.token # NoToken
  /\ ~localStorage.authenticated
  /\ localStorage.expires_at = 0
  /\ \E r \in Reqs : pc[r] = "replay" /\ replayTok[r] = localStorage.token

\* ------------------------------------------------------------------- C30
\* C30: a first 401 puts any request into the refresh protocol, the login
\* request and a request sent without Authorization header included: a
\* refresh call is issued for it or it is queued, its caller has nothing yet,
\* and when that refresh fails the caller gets the failure of the refresh and
\* storage is cleared.
C30_AnyRequestRefreshes ==
  [][\A r \in Reqs :
       /\ (pc[r] = "sent" /\ pc'[r] # "sent" /\ lastErr'[r] = "http401") =>
            /\ pc'[r] \in {"awaitRefresh", "queued"}
            /\ pc'[r] = "awaitRefresh" => nRefresh'[r] = 1
            /\ pc'[r] = "queued" => nQueued'[r] = 1
            /\ outcome'[r] = Pending
       /\ RefreshFails(r) =>
            /\ \A w \in Range(queue) \cup {r} : outcome'[w].of = "refresh"
            /\ localStorage' = EmptyStorage]_vars

\* the login request, sent without header when nothing was stored, was
\* answered 401 and a refresh call is in flight for it
C30_Witness ==
  /\ localStorage = EmptyStorage
  /\ \E r \in Reqs :
       /\ kind[r] = "login"
       /\ hdr[r] = NoHeader
       /\ pc[r] = "awaitRefresh"
       /\ nRefresh[r] = 1

====
